---- MODULE Spec2Model ----
(***************************************************************************)
(* Pattern Detection ML Service (ml-service): the /predict and /train      *)
(* handlers of app.py, the model slot they share, the feature normalizer   *)
(* of preprocess.py and the prediction strategy of model.py.               *)
(*                                                                         *)
(* Numbers.  Candle fields are integers.  A normalized value is an exact   *)
(* fraction <<n, d>> in lowest terms (d >= 1).  The rule-based return      *)
(*     ret = (last - first) / (first + 1e-8)                               *)
(* is kept as a triple <<a, b, d>> standing for a / (b + d * 1e-8), and a  *)
(* probability as base + PROB_SLOPE * |ret|; comparisons with decimal      *)
(* thresholds are decided exactly by cross-multiplication (see EpsFloor).  *)
(***************************************************************************)
EXTENDS Integers, Sequences, FiniteSets, TLC

\* None is the empty tuple; a value that may be None is a non-empty tuple otherwise
None == <<>>

\* ---------------------------------------------------------------- model.py
SEQ_LEN == 60
NUM_FEATURES == 5
PATTERNS == <<"Head and Shoulders", "Double Bottom", "Bullish Flag", "Bearish Flag", "Consolidation">>
TRENDS == <<"BULLISH", "BEARISH", "NEUTRAL">>

\* 1e-8 is 1 / EpsInv
EpsInv == 100000000
\* x[-20:, 3]: the last 20 rows, column 3 (0-based) = column 4 (1-based)
LAST_CLOSES == 20
CLOSE_COL == 4

\* ------------------------------------------------------------------ app.py
MIN_CANDLES == 50
\* ----------------------------------------------------------- preprocess.py
MAX_CANDLES == 500

\* --------------------------------------------------------------- arithmetic
Abs(x) == IF x < 0 THEN -x ELSE x
Min2(a, b) == IF a < b THEN a ELSE b

RECURSIVE Gcd(_, _)
Gcd(a, b) == IF b = 0 THEN a ELSE Gcd(b, a % b)

\* the fraction n/d (d > 0) in lowest terms
Rat(n, d) == LET g == Gcd(Abs(n), d) IN <<n \div g, d \div g>>

\* floor and ceiling of k * 1e-8: for an integer L,
\*   L > k*1e-8  <=>  L > EpsFloor(k)      L < k*1e-8 <=> L < EpsCeil(k)
EpsFloor(k) == k \div EpsInv
EpsCeil(k) == -((-k) \div EpsInv)

\* ret = <<a, b, d>> is a / (b + d*1e-8), with b >= 0 and d >= 1
RetGT(r, p, q) == q * r[1] - p * r[2] > EpsFloor(p * r[3])      \* ret >  p/q
RetLT(r, p, q) == q * r[1] - p * r[2] < EpsCeil(p * r[3])       \* ret <  p/q

\* ret of closes first = f[1]/f[2], last = l[1]/l[2]:
\*   (l - f) / (f + 1e-8) = (l1*f2 - f1*l2) / (l2*f1 + l2*f2*1e-8)
RetOf(f, l) == <<l[1] * f[2] - f[1] * l[2], l[2] * f[1], l[2] * f[2]>>
RetAbs(r) == <<Abs(r[1]), r[2], r[3]>>
RetZero == <<0, 1, 1>>

\* A probability is base + slope * |ret|: [base |-> <<n, d>>, slope |-> k, ret |-> r]
ProbConst(n, d) == [base |-> Rat(n, d), slope |-> 0, ret |-> RetZero]
ProbLin(n, d, k, r) == [base |-> Rat(n, d), slope |-> k, ret |-> RetAbs(r)]

\* P < n/d, P <= n/d, P >= n/d, exactly:
\*   base + k*a/(b + D*eps) ? n/d   <=>   k*a*v - u*b ? u*D*eps
\*   with u/v = n/d - base, v > 0
ProbU(P, n, d) == n * P.base[2] - P.base[1] * d
ProbV(P, n, d) == d * P.base[2]
ProbL(P, n, d) == P.slope * P.ret[1] * ProbV(P, n, d) - ProbU(P, n, d) * P.ret[2]
ProbLT(P, n, d) == ProbL(P, n, d) < EpsCeil(ProbU(P, n, d) * P.ret[3])
ProbLE(P, n, d) == ProbL(P, n, d) <= EpsFloor(ProbU(P, n, d) * P.ret[3])
ProbGE(P, n, d) == ~ProbLT(P, n, d)

\* nearest multiple of 1e-4, as a count of 1e-4 units (round(probability, 4));
\* Est is within 2 of the exact value, the CHOOSE picks the exact one
RoundEst(P) == (10000 * P.base[1]) \div P.base[2]
                 + (IF P.slope * P.ret[1] = 0 THEN 0
                    ELSE (10000 * P.slope * P.ret[1]) \div (IF P.ret[2] = 0 THEN 1 ELSE P.ret[2]))
Round4(P) == CHOOSE m \in (RoundEst(P) - 2)..(RoundEst(P) + 2) :
                 ProbGE(P, 2 * m - 1, 20000) /\ ProbLT(P, 2 * m + 1, 20000)

RatLE(x, y) == x[1] * y[2] <= y[1] * x[2]

\* ----------------------------------------------------------- preprocess.py
\* one row [o, h, l_, cl, v] of arr
Row(c) == <<c.open, c.high, c.low, c.close, c.volume>>

ColSet(data, j) == {data[i][j] : i \in 1..Len(data)}
ColMin(data, j) == CHOOSE m \in ColSet(data, j) : \A x \in ColSet(data, j) : m <= x
ColMax(data, j) == CHOOSE m \in ColSet(data, j) : \A x \in ColSet(data, j) : m >= x

\* a scaler that forgets to shift by the column minimum
MinMaxScale_noshift(x, mn, mx) == IF mx = mn THEN Rat(x, 1) ELSE Rat(x, mx - mn)

\* MinMaxScaler(feature_range=(0, 1)): (x - min) * scale, scale = 1 / (max - min),
\* and scale = 1 for a column whose range is zero
MinMaxScale(x, mn, mx) == IF mx = mn THEN Rat(x - mn, 1) ELSE Rat(x - mn, mx - mn)

\* scaler.fit_transform(data), row i: every column scaled by data_min and data_max,
\* the column minima and maxima over ALL rows of data
FitTransformRow(data, data_min, data_max, i) ==
    [j \in 1..NUM_FEATURES |-> MinMaxScale(data[i][j], data_min[j], data_max[j])]

\* ohlcv_to_features(candles, seq_len): None, or the pair (X, scaler) with X the
\* (1, seq_len, 5) batch
ohlcv_to_features(candles, seq_len) ==
    IF Len(candles) = 0 \/ Len(candles) < seq_len THEN None
    ELSE LET data == [i \in 1..Len(candles) |-> Row(candles[i])]
         IN  IF Len(data) < seq_len THEN None
             ELSE LET n == Len(data)
                      data_min == <<ColMin(data, 1), ColMin(data, 2), ColMin(data, 3),
                                    ColMin(data, 4), ColMin(data, 5)>>
                      data_max == <<ColMax(data, 1), ColMax(data, 2), ColMax(data, 3),
                                    ColMax(data, 4), ColMax(data, 5)>>
                      \* data[-seq_len:] of the transformed data
                      X == [i \in 1..seq_len |->
                               FitTransformRow(data, data_min, data_max, n - seq_len + i)]
                  IN  << <<X>>, [data_min |-> data_min, data_max |-> data_max] >>

\* a truncation that keeps every candle
Truncate_keepall(candles, max_candles) == candles

\* candles[-max_candles:] if len(candles) > max_candles else candles
Truncate(candles, max_candles) ==
    IF Len(candles) > max_candles
    THEN SubSeq(candles, Len(candles) - max_candles + 1, Len(candles))
    ELSE candles

prepare_predict_input(candles, seq_len, max_candles) ==
    LET use == Truncate(candles, max_candles)
        result == ohlcv_to_features(use, seq_len)
    IN  IF result = None THEN None ELSE result[1]

\* ---------------------------------------------------------------- model.py
Triple(pattern, prob, trend) == [pattern |-> pattern, probability |-> prob, trend |-> trend]

\* a clamp that lets the probability through
MinProb_nocap(n, d, P) == P

\* min(0.95, x): x when x < 0.95, else 0.95
MinProb(n, d, P) == IF ProbLT(P, n, d) THEN P ELSE ProbConst(n, d)

\* _mock_predict(X).  vol = std/mean of the closes is computed by the code and
\* never read, so it has no place in the result.
mock_predict(X) ==
    IF X = None \/ Len(X) = 0 THEN Triple("Consolidation", ProbConst(5, 10), "NEUTRAL")
    ELSE LET x == X[1]
             closes == IF Len(x) >= LAST_CLOSES
                       THEN [i \in 1..LAST_CLOSES |-> x[Len(x) - LAST_CLOSES + i][CLOSE_COL]]
                       ELSE [i \in 1..Len(x) |-> x[i][CLOSE_COL]]
         IN  IF Len(closes) < 2 THEN Triple("Consolidation", ProbConst(5, 10), "NEUTRAL")
             ELSE LET ret == RetOf(closes[1], closes[Len(closes)])
                  IN  IF RetGT(ret, 2, 100)
                      THEN Triple("Bullish Flag", MinProb(95, 100, ProbLin(6, 10, 5, ret)), "BULLISH")
                      ELSE IF RetLT(ret, -2, 100)
                      THEN Triple("Bearish Flag", MinProb(95, 100, ProbLin(6, 10, 5, ret)), "BEARISH")
                      ELSE Triple("Consolidation", ProbConst(5, 10), "NEUTRAL")

\* np.argmax(v): the 0-based index of the first maximum of a non-empty vector
ArgMax(v) == (CHOOSE i \in 1..Len(v) :
                 /\ \A k \in 1..Len(v) : RatLE(v[k], v[i])
                 /\ \A k \in 1..(i - 1) : ~RatLE(v[i], v[k])) - 1

\* a try block that clamps the trend index the way the pattern index is clamped
ModelInvoke_clamped(out) ==
    IF out.raises THEN [ok |-> FALSE]
    ELSE IF Len(out.pred) = 0 THEN [ok |-> FALSE]
    ELSE LET idx == ArgMax(out.pred)
         IN  [ok |-> TRUE,
              val |-> Triple(PATTERNS[Min2(idx, Len(PATTERNS) - 1) + 1],
                             ProbConst(out.pred[idx + 1][1], out.pred[idx + 1][2]),
                             TRENDS[Min2(idx, Len(TRENDS) - 1) + 1])]

\* the try block of predict.  out is what model.predict(X, verbose=0) does:
\* [raises |-> TRUE] or [raises |-> FALSE, pred |-> the vector pred[0]].
\* [ok |-> FALSE] is an exception caught by `except Exception`.
ModelInvoke(out) ==
    IF out.raises THEN [ok |-> FALSE]
    ELSE IF Len(out.pred) = 0 THEN [ok |-> FALSE]            \* argmax of an empty vector
    ELSE LET idx == ArgMax(out.pred)
         IN  IF idx >= Len(TRENDS) THEN [ok |-> FALSE]       \* TRENDS[idx]: IndexError
             ELSE [ok |-> TRUE,
                   val |-> Triple(PATTERNS[Min2(idx, Len(PATTERNS) - 1) + 1],
                                  ProbConst(out.pred[idx + 1][1], out.pred[idx + 1][2]),
                                  TRENDS[idx + 1])]

\* predict(X, model): [raised |-> FALSE, val |-> (pattern, probability, trend)]
predict(X, model, has_tf, out) ==
    IF model # None /\ has_tf /\ ModelInvoke(out).ok
    THEN [raised |-> FALSE, val |-> ModelInvoke(out).val]
    ELSE [raised |-> FALSE, val |-> mock_predict(X)]

\* ======================================================================
\* The functions on their own: one candle list through prepare_predict_input,
\* then _mock_predict and predict on the window.
\* ======================================================================
VARIABLES HAS_TF,        \* model.py: whether tensorflow imported
          f_candles,     \* the candle list
          f_pc,          \* "input", "normalized", then "mocked" or "predicted"
          f_X,           \* prepare_predict_input(candles)
          f_mock,        \* None or <<_mock_predict(X)>>
          f_model,       \* the model argument of predict
          f_out,         \* what model.predict did
          f_res          \* None or <<predict(X, model)>>

\* The service: app.py's handlers, run by a pool of worker threads.
VARIABLES _model,        \* app.py: the module-level slot
          artifact,      \* version of the saved model file, 0 when there is none
          pc,            \* per worker: "idle", then "check", "load", "loading", "store",
                         \* "return", "predict" inside get_model and predict, then "done"
          candles,       \* per worker: req.candles
          X,             \* per worker: the local X
          tmp,           \* per worker: the value load_or_mock is producing
          model,         \* per worker: the local model
          resp,          \* per worker: the response
          tpc,           \* train_endpoint: "idle", "running", "exited0"
          tresp,         \* train_endpoint: the response
          \* bookkeeping, read by no handler
          calls,         \* /predict and /train calls received
          pending,       \* a training succeeded and no later /predict reached get_model yet
          afterTrain,    \* per worker: pending when its request was received
          isNext,        \* per worker: its request is the next /predict after a training
          normalized,    \* per worker: prepare_predict_input was called
          loaded,        \* per worker: load_or_mock was called
          used,          \* per worker: the model predict was given
          noModelCached, \* a failed load was stored since the last invalidation
          afterFail      \* per worker: noModelCached when its request was received

fvars == <<f_candles, f_pc, f_X, f_mock, f_model, f_out, f_res>>
svars == <<_model, artifact, pc, candles, X, tmp, model, resp, tpc, tresp,
           calls, afterTrain, pending, isNext, normalized,
           loaded, used, noModelCached, afterFail>>
vars == <<HAS_TF, fvars, svars>>

Workers == {"w1", "w2"}
NoResp == [status |-> 0, detail |-> "", body |-> None]

\* the service before any request
ServiceIdle ==
    /\ _model = None
    /\ pc = [p \in Workers |-> "idle"]
    /\ candles = [p \in Workers |-> <<>>]
    /\ X = [p \in Workers |-> None]
    /\ tmp = [p \in Workers |-> None]
    /\ model = [p \in Workers |-> None]
    /\ resp = [p \in Workers |-> NoResp]
    /\ tpc = "idle"
    /\ tresp = NoResp
    /\ calls = 0
    /\ pending = FALSE
    /\ afterTrain = [p \in Workers |-> FALSE]
    /\ isNext = [p \in Workers |-> FALSE]
    /\ normalized = [p \in Workers |-> FALSE]
    /\ loaded = [p \in Workers |-> FALSE]
    /\ used = [p \in Workers |-> None]
    /\ noModelCached = FALSE
    /\ afterFail = [p \in Workers |-> FALSE]

\* ---- inputs
MaxExtra == 2
Levels == {0, 20, 21, 50, 51}
TopLevel == 60

\* a candle at price level p; volume is left at its default, 0.0
Bar(p) == [open |-> p + 1, high |-> p + 2, low |-> p \div 2, close |-> p, volume |-> 0]

\* n candles: the last at level l, the rest of the last SEQ_LEN at level f, the older
\* ones that survive truncation at level old, and the ones truncation drops
\* alternating between 0 and TopLevel
GenCandles(n, old, f, l) ==
    [i \in 1..n |->
        IF i = n THEN Bar(l)
        ELSE IF i > n - SEQ_LEN THEN Bar(f)
        ELSE IF i > n - MAX_CANDLES THEN Bar(old)
        ELSE Bar(IF i % 2 = 0 THEN 0 ELSE TopLevel)]

Lens == {0, 1, MIN_CANDLES - 1, MIN_CANDLES, SEQ_LEN - 1, SEQ_LEN, SEQ_LEN + 1, MAX_CANDLES}
          \cup {MAX_CANDLES + k : k \in 1..MaxExtra}

CandleLists == {GenCandles(n, old, f, l) :
                   n \in Lens, old \in Levels, f \in Levels, l \in Levels}

Lo == <<1, 10>>
Hi == <<8, 10>>
PredVectors == {<<>>, <<Hi>>, <<Hi, Lo, Lo>>, <<Lo, Hi, Hi>>, <<Lo, Lo, Hi>>,
                <<Lo, Lo, Lo, Hi>>, <<Lo, Hi, Lo, Hi>>, <<Lo, Lo, Lo, Lo, Hi>>}
ModelOutputs == {[raises |-> TRUE, pred |-> <<>>]}
                  \cup {[raises |-> FALSE, pred |-> v] : v \in PredVectors}
NoOutput == [raises |-> TRUE, pred |-> <<>>]

\* a model object, named by the version of the artifact it is loaded from:
\* under construction inside load_model, then loaded
Loading(v) == <<v, "loading">>
Model(v) == <<v, "loaded">>

FnInit ==
    /\ HAS_TF \in BOOLEAN
    /\ artifact = 0
    /\ ServiceIdle
    /\ f_candles \in CandleLists
    /\ f_pc = "input"
    /\ f_X = None
    /\ f_mock = None
    /\ f_model = None
    /\ f_out = NoOutput
    /\ f_res = None

FnNormalize ==
    /\ f_pc = "input"
    /\ f_X' = prepare_predict_input(f_candles, SEQ_LEN, MAX_CANDLES)
    /\ f_pc' = "normalized"
    /\ UNCHANGED <<HAS_TF, svars, f_candles, f_mock, f_model, f_out, f_res>>

FnMock ==
    /\ f_pc = "normalized"
    /\ f_X # None
    /\ f_mock' = <<mock_predict(f_X)>>
    /\ f_pc' = "mocked"
    /\ UNCHANGED <<HAS_TF, svars, f_candles, f_X, f_model, f_out, f_res>>

FnPredict ==
    /\ f_pc = "normalized"
    /\ f_X # None
    /\ \E m \in {None, Model(1)} :
       \E out \in (IF m = None THEN {NoOutput} ELSE ModelOutputs) :
          /\ f_model' = m
          /\ f_out' = out
          /\ f_res' = <<predict(f_X, m, HAS_TF, out)>>
    /\ f_pc' = "predicted"
    /\ UNCHANGED <<HAS_TF, svars, f_candles, f_X, f_mock>>

FnNext == FnNormalize \/ FnMock \/ FnPredict

SpecFn == FnInit /\ [][FnNext]_vars

\* ======================================================================
\* The service: /predict and /train, one step per access to shared state.
\* ======================================================================
\* /predict and /train calls received, in all
MaxCalls == 3

ServiceLists == {GenCandles(n, 0, 20, 21) :
                    n \in {0, MIN_CANDLES - 1, MIN_CANDLES, SEQ_LEN}}
ServiceOutputs == {[raises |-> TRUE, pred |-> <<>>],
                   [raises |-> FALSE, pred |-> <<Hi, Lo, Lo>>]}

Error(status, detail) == [status |-> status, detail |-> detail, body |-> None]
Ok(body) == [status |-> 200, detail |-> "", body |-> <<body>>]

Init ==
    /\ HAS_TF \in BOOLEAN
    /\ artifact \in {0, 1}
    /\ ServiceIdle
    /\ f_candles = <<>>
    /\ f_pc = "off"
    /\ f_X = None
    /\ f_mock = None
    /\ f_model = None
    /\ f_out = NoOutput
    /\ f_res = None

\* a validation that only rejects the empty list
TooFew_emptyonly(cs) == Len(cs) = 0

\* predict_endpoint: not req.candles or len(req.candles) < 50
TooFew(cs) == Len(cs) = 0 \/ Len(cs) < MIN_CANDLES

\* a call that passes the request floor for the window length
NormalizeInput_floor(cs) == prepare_predict_input(cs, MIN_CANDLES, MAX_CANDLES)

\* predict_endpoint: prepare_predict_input(candles, seq_len=SEQ_LEN)
NormalizeInput(cs) == prepare_predict_input(cs, SEQ_LEN, MAX_CANDLES)

\* predict_endpoint, up to the call of get_model: a request arrives at worker p,
\* is validated and, when valid, normalized
Receive(p) ==
    /\ pc[p] \in {"idle", "done"}
    /\ calls < MaxCalls
    /\ calls' = calls + 1
    /\ \E cs \in ServiceLists :
          /\ candles' = [candles EXCEPT ![p] = cs]
          /\ IF TooFew(cs)
             THEN /\ resp' = [resp EXCEPT ![p] = Error(400, "At least 50 candles required")]
                  /\ pc' = [pc EXCEPT ![p] = "done"]
                  /\ normalized' = [normalized EXCEPT ![p] = FALSE]
                  /\ X' = [X EXCEPT ![p] = None]
             ELSE /\ normalized' = [normalized EXCEPT ![p] = TRUE]
                  /\ IF NormalizeInput(cs) = None
                     THEN /\ resp' = [resp EXCEPT ![p] =
                                        Error(400, "Insufficient data after preprocessing")]
                          /\ pc' = [pc EXCEPT ![p] = "done"]
                          /\ X' = [X EXCEPT ![p] = None]
                     ELSE /\ resp' = [resp EXCEPT ![p] = NoResp]
                          /\ pc' = [pc EXCEPT ![p] = "check"]
                          /\ X' = [X EXCEPT ![p] = NormalizeInput(cs)]
    /\ afterTrain' = [afterTrain EXCEPT ![p] = pending]
    /\ isNext' = [isNext EXCEPT ![p] = FALSE]
    /\ loaded' = [loaded EXCEPT ![p] = FALSE]
    /\ used' = [used EXCEPT ![p] = None]
    /\ afterFail' = [afterFail EXCEPT ![p] = noModelCached]
    /\ UNCHANGED <<HAS_TF, fvars, _model, artifact, tmp, model, tpc, tresp,
                   pending, noModelCached>>

\* get_model: if _model is None
GetModelCheck(p) ==
    /\ pc[p] = "check"
    /\ pc' = [pc EXCEPT ![p] = IF _model = None THEN "load" ELSE "return"]
    /\ IF afterTrain[p] /\ pending
       THEN /\ isNext' = [isNext EXCEPT ![p] = TRUE]
            /\ pending' = FALSE
       ELSE UNCHANGED <<isNext, pending>>
    /\ UNCHANGED <<HAS_TF, fvars, _model, artifact, candles, X, tmp, model, resp, tpc,
                   tresp, calls, afterTrain, normalized, loaded,
                   used, noModelCached, afterFail>>

\* load_or_mock, entered: HAS_TF and os.path.isfile(model_path), else return None
LoadBegin(p) ==
    /\ pc[p] = "load"
    /\ loaded' = [loaded EXCEPT ![p] = TRUE]
    /\ IF HAS_TF /\ artifact > 0
       THEN /\ tmp' = [tmp EXCEPT ![p] = Loading(artifact)]
            /\ pc' = [pc EXCEPT ![p] = "loading"]
       ELSE /\ tmp' = [tmp EXCEPT ![p] = None]
            /\ pc' = [pc EXCEPT ![p] = "store"]
    /\ UNCHANGED <<HAS_TF, fvars, _model, artifact, candles, X, model, resp, tpc, tresp,
                   calls, afterTrain, pending, isNext, normalized,
                   used, noModelCached, afterFail>>

\* load_or_mock, leaving: load_model returns the model, or raises and None is returned
LoadEnd(p) ==
    /\ pc[p] = "loading"
    /\ \E ok \in BOOLEAN :
          tmp' = [tmp EXCEPT ![p] = IF ok THEN Model(tmp[p][1]) ELSE None]
    /\ pc' = [pc EXCEPT ![p] = "store"]
    /\ UNCHANGED <<HAS_TF, fvars, _model, artifact, candles, X, model, resp, tpc, tresp,
                   calls, afterTrain, pending, isNext, normalized,
                   loaded, used, noModelCached, afterFail>>

\* get_model: _model = load_or_mock()
GetModelStore(p) ==
    /\ pc[p] = "store"
    /\ _model' = tmp[p]
    /\ noModelCached' = (noModelCached \/ tmp[p] = None)
    /\ pc' = [pc EXCEPT ![p] = "return"]
    /\ UNCHANGED <<HAS_TF, fvars, artifact, candles, X, tmp, model, resp, tpc, tresp,
                   calls, afterTrain, pending, isNext, normalized,
                   loaded, used, afterFail>>

\* get_model: return _model; predict_endpoint: model = get_model()
GetModelReturn(p) ==
    /\ pc[p] = "return"
    /\ model' = [model EXCEPT ![p] = _model]
    /\ pc' = [pc EXCEPT ![p] = "predict"]
    /\ UNCHANGED <<HAS_TF, fvars, _model, artifact, candles, X, tmp, resp, tpc, tresp,
                   calls, afterTrain, pending, isNext, normalized,
                   loaded, used, noModelCached, afterFail>>

\* a prediction that reads the slot again
ModelArg_slot(p) == _model

\* predict_endpoint: predict(X, model=model)
ModelArg(p) == model[p]

\* predict_endpoint: predict(X, model=model) and the response
PredictCall(p) ==
    /\ pc[p] = "predict"
    /\ used' = [used EXCEPT ![p] = ModelArg(p)]
    /\ \E out \in (IF ModelArg(p) = None THEN {NoOutput} ELSE ServiceOutputs) :
          LET r == predict(X[p], ModelArg(p), HAS_TF, out)
          IN  resp' = [resp EXCEPT ![p] =
                          IF r.raised THEN Error(500, "Internal Server Error")
                          ELSE Ok([pattern |-> r.val.pattern,
                                   probability |-> Round4(r.val.probability),
                                   trend_prediction |-> r.val.trend])]
    /\ pc' = [pc EXCEPT ![p] = "done"]
    \* the handler returns: its locals are gone
    /\ X' = [X EXCEPT ![p] = None]
    /\ tmp' = [tmp EXCEPT ![p] = None]
    /\ model' = [model EXCEPT ![p] = None]
    \* and the bookkeeping of its request is reset
    /\ afterTrain' = [afterTrain EXCEPT ![p] = FALSE]
    /\ isNext' = [isNext EXCEPT ![p] = FALSE]
    /\ loaded' = [loaded EXCEPT ![p] = FALSE]
    /\ afterFail' = [afterFail EXCEPT ![p] = FALSE]
    /\ UNCHANGED <<HAS_TF, fvars, _model, artifact, candles, tpc, tresp,
                   calls, pending, normalized, noModelCached>>

\* train_endpoint: train_script.exists(), then subprocess.run starts
TrainBegin ==
    /\ tpc = "idle"
    /\ calls < MaxCalls
    /\ calls' = calls + 1
    /\ \E exists \in BOOLEAN :
          IF exists
          THEN tpc' = "running" /\ tresp' = NoResp
          ELSE tpc' = "idle" /\ tresp' = Error(500, "train.py not found")
    /\ UNCHANGED <<HAS_TF, fvars, _model, artifact, pc, candles, X, tmp, model, resp,
                   afterTrain, pending, isNext, normalized, loaded,
                   used, noModelCached, afterFail>>

\* a timeout that also clears the slot
TrainTimeout_clears ==
    /\ tpc = "running"
    /\ tpc' = "idle"
    /\ tresp' = Error(504, "Training timed out (max 600s)")
    /\ _model' = None
    /\ UNCHANGED <<HAS_TF, fvars, artifact, pc, candles, X, tmp, model, resp,
                   calls, afterTrain, pending, isNext, normalized,
                   loaded, used, noModelCached, afterFail>>

\* train_endpoint: subprocess.TimeoutExpired
TrainTimeout ==
    /\ tpc = "running"
    /\ tpc' = "idle"
    /\ tresp' = Error(504, "Training timed out (max 600s)")
    /\ UNCHANGED <<HAS_TF, fvars, _model, artifact, pc, candles, X, tmp, model, resp,
                   calls, afterTrain, pending, isNext, normalized,
                   loaded, used, noModelCached, afterFail>>

\* train_endpoint: result.returncode != 0 (train.py exits 1 without tensorflow)
TrainFail ==
    /\ tpc = "running"
    /\ tpc' = "idle"
    /\ tresp' = Error(500, "Training failed")
    /\ UNCHANGED <<HAS_TF, fvars, _model, artifact, pc, candles, X, tmp, model, resp,
                   calls, afterTrain, pending, isNext, normalized,
                   loaded, used, noModelCached, afterFail>>

\* train.py main(): model.save(out_path), and the subprocess exits 0
TrainSave ==
    /\ tpc = "running"
    /\ HAS_TF
    /\ artifact' = artifact + 1
    /\ tpc' = "exited0"
    /\ UNCHANGED <<HAS_TF, fvars, _model, pc, candles, X, tmp, model, resp, tresp,
                   calls, afterTrain, pending, isNext, normalized,
                   loaded, used, noModelCached, afterFail>>

\* train_endpoint: _model = None and the 200 response
TrainInvalidate ==
    /\ tpc = "exited0"
    /\ _model' = None
    /\ tpc' = "idle"
    /\ tresp' = Ok("Model saved")
    /\ pending' = TRUE
    \* the requests in flight were received before this training completed
    /\ afterTrain' = [p \in Workers |-> FALSE]
    /\ noModelCached' = FALSE
    /\ UNCHANGED <<HAS_TF, fvars, artifact, pc, candles, X, tmp, model, resp,
                   calls, isNext, normalized, loaded, used, afterFail>>

Next ==
    \/ \E p \in Workers : Receive(p)
    \/ \E p \in Workers : GetModelCheck(p)
    \/ \E p \in Workers : LoadBegin(p)
    \/ \E p \in Workers : LoadEnd(p)
    \/ \E p \in Workers : GetModelStore(p)
    \/ \E p \in Workers : GetModelReturn(p)
    \/ \E p \in Workers : PredictCall(p)
    \/ TrainBegin
    \/ TrainTimeout
    \/ TrainFail
    \/ TrainSave
    \/ TrainInvalidate

Spec == Init /\ [][Next]_vars

\* ----------------------------------------------------- claims, functions
\* the cs that survive truncation are the last RetainedLen(cs)
RetainedLen(cs) == Min2(Len(cs), MAX_CANDLES)
RawRow(cs, i) == Row(cs[Len(cs) - SEQ_LEN + i])
RetainedCol(cs, j) ==
    {Row(cs[k])[j] : k \in (Len(cs) - RetainedLen(cs) + 1)..Len(cs)}
WindowCol(cs, j) ==
    {Row(cs[k])[j] : k \in (Len(cs) - SEQ_LEN + 1)..Len(cs)}
SetMin(S) == CHOOSE m \in S : \A x \in S : m <= x
SetMax(S) == CHOOSE m \in S : \A x \in S : m >= x
Scaled(x, S) == IF SetMax(S) = SetMin(S) THEN <<0, 1>>
                ELSE Rat(x - SetMin(S), SetMax(S) - SetMin(S))
LastWindow(cs) == SubSeq(cs, Len(cs) - SEQ_LEN + 1, Len(cs))

\* C9 (as stated): the window is scaled by the minimum and maximum of its own
\* SEQ_LEN rows only, so a candle list and its last SEQ_LEN candles alone give
\* the same window, whatever the older candles are.
C9_WindowOwnMinMax ==
    (f_pc = "normalized" /\ f_X # None)
        => /\ f_X = prepare_predict_input(LastWindow(f_candles), SEQ_LEN, MAX_CANDLES)
           /\ \A j \in 1..NUM_FEATURES : \A i \in 1..SEQ_LEN :
                 f_X[1][i][j] = Scaled(RawRow(f_candles, i)[j], WindowCol(f_candles, j))

\* C9 (amended): the window is scaled by the minimum and maximum of the retained
\* candles (the most recent MAX_CANDLES of the list), so the candles truncation
\* drops have no effect on it while the retained but older ones do.
C9_RetainedMinMax ==
    (f_pc = "normalized" /\ f_X # None)
        => \A j \in 1..NUM_FEATURES : \A i \in 1..SEQ_LEN :
              f_X[1][i][j] = Scaled(RawRow(f_candles, i)[j], RetainedCol(f_candles, j))

\* a list longer than MAX_CANDLES whose dropped candles lie outside the range of
\* the retained ones, and whose retained older candles lie outside the window's
C9_Witness ==
    /\ f_pc = "normalized" /\ f_X # None
    /\ Len(f_candles) > MAX_CANDLES
    /\ f_candles[1].close > SetMax(RetainedCol(f_candles, CLOSE_COL))
    /\ SetMin(RetainedCol(f_candles, CLOSE_COL)) < SetMin(WindowCol(f_candles, CLOSE_COL))

C10_WitnessNone ==
    /\ f_pc = "normalized" /\ f_X = None /\ Len(f_candles) = SEQ_LEN - 1

\* C8: _mock_predict is a function of the window.  With first = nf/df and
\* last = nl/dl the first and last of the last 20 closes,
\*     ret = a / (b + D * 1e-8),  a = nl*df - nf*dl,  b = dl*nf,  D = dl*df,
\* and, D * 1e-8 being below 1/7,  ret > 0.02 <=> 50a - b >= 1,
\* ret < -0.02 <=> 50a + b <= -1,  0.6 + 5|ret| >= 0.95 <=> 100|a| - 7b >= 1.
C8_First == f_X[1][SEQ_LEN - LAST_CLOSES + 1][CLOSE_COL]
C8_Last == f_X[1][SEQ_LEN][CLOSE_COL]
C8_a == C8_Last[1] * C8_First[2] - C8_First[1] * C8_Last[2]
C8_b == C8_Last[2] * C8_First[1]
C8_D == C8_Last[2] * C8_First[2]
C8_Prob == IF 100 * Abs(C8_a) - 7 * C8_b >= 1
           THEN [base |-> <<19, 20>>, slope |-> 0, ret |-> RetZero]
           ELSE [base |-> <<3, 5>>, slope |-> 5, ret |-> <<Abs(C8_a), C8_b, C8_D>>]
C8_Expected ==
    IF 50 * C8_a - C8_b >= 1 THEN Triple("Bullish Flag", C8_Prob, "BULLISH")
    ELSE IF 50 * C8_a + C8_b <= -1 THEN Triple("Bearish Flag", C8_Prob, "BEARISH")
    ELSE Triple("Consolidation", [base |-> <<1, 2>>, slope |-> 0, ret |-> RetZero], "NEUTRAL")

C8_MockPredictRule ==
    f_mock # None
        => /\ 7 * C8_D < EpsInv
           /\ f_mock[1] = C8_Expected
           /\ ProbGE(f_mock[1].probability, 1, 2)
           /\ ProbLE(f_mock[1].probability, 19, 20)

\* a bullish window whose probability is strictly between 0.6 and 0.95
C8_Witness ==
    /\ f_mock # None
    /\ f_mock[1].trend = "BULLISH"
    /\ f_mock[1].probability.slope = 5
    /\ ProbLT(f_mock[1].probability, 19, 20)

C8_WitnessBearClamped ==
    /\ f_mock # None
    /\ f_mock[1].trend = "BEARISH"
    /\ f_mock[1].probability = ProbConst(95, 100)

\* C4: whenever invoking a loaded model fails (it raises, returns an empty vector,
\* or its arg-max lies outside the trend table), predict raises nothing and
\* returns what _mock_predict returns for the window.
C4_Fails(out) ==
    \/ out.raises
    \/ Len(out.pred) = 0
    \/ \E i \in (Len(TRENDS) + 1)..Len(out.pred) :
          /\ \A k \in 1..Len(out.pred) : RatLE(out.pred[k], out.pred[i])
          /\ \A k \in 1..(i - 1) : ~RatLE(out.pred[i], out.pred[k])

C4_FailureFallsBack ==
    (f_pc = "predicted" /\ f_model # None /\ C4_Fails(f_out))
        => /\ ~f_res[1].raised
           /\ f_res[1].val = mock_predict(f_X)

\* a loaded model whose arg-max is index 3 or 4, on a window the rules call bearish
C4_Witness ==
    /\ f_pc = "predicted" /\ f_model # None /\ HAS_TF
    /\ ~f_out.raises /\ Len(f_out.pred) > Len(TRENDS) /\ C4_Fails(f_out)
    /\ f_res[1].val.trend = "BEARISH"

\* ------------------------------------------------------- claims, service
InGetModelOrPredict(p) == pc[p] \in {"check", "load", "loading", "store", "return", "predict"}
IsModel(m) == m = None \/ (m[2] = "loaded" /\ m[1] \in 1..artifact)

\* C1: a /predict request whose candle list is empty or shorter than 50 ends with
\* the validation error and prepare_predict_input is never called for it;
\* normalization happens only after validation passed, and get_model and predict
\* only after normalization.
C1_ValidationFirst ==
    \A p \in Workers :
       /\ (pc[p] # "idle" /\ (Len(candles[p]) = 0 \/ Len(candles[p]) < MIN_CANDLES))
             => /\ pc[p] = "done"
                /\ resp[p] = Error(400, "At least 50 candles required")
                /\ ~normalized[p]
       /\ normalized[p] => Len(candles[p]) >= MIN_CANDLES
       /\ (InGetModelOrPredict(p) \/ resp[p].status = 200)
             => (normalized[p] /\ RetainedLen(candles[p]) >= SEQ_LEN)

C1_Witness ==
    \E p \in Workers :
       /\ pc[p] = "done"
       /\ Len(candles[p]) = MIN_CANDLES - 1
       /\ resp[p].status = 400
       /\ ~normalized[p]

\* C7: a /predict request with at least 50 candles of which fewer than SEQ_LEN
\* remain after truncation ends with the 400 "Insufficient data after
\* preprocessing", which is not the validation error, and predicts nothing.
C7_InsufficientData ==
    \A p \in Workers :
       (pc[p] # "idle" /\ Len(candles[p]) >= MIN_CANDLES
           /\ RetainedLen(candles[p]) < SEQ_LEN)
          => /\ pc[p] = "done"
             /\ resp[p].status = 400
             /\ resp[p].detail = "Insufficient data after preprocessing"
             /\ resp[p].detail # "At least 50 candles required"
             /\ resp[p].body = None
             /\ used[p] = None

C7_Witness ==
    \E p \in Workers :
       /\ pc[p] = "done"
       /\ Len(candles[p]) = MIN_CANDLES
       /\ normalized[p]
       /\ resp[p].detail = "Insufficient data after preprocessing"

\* C5: a step of train_endpoint changes the slot only on the path where the
\* training exited with status 0; the not-found, timeout and non-zero paths
\* leave it as it was.
C5_FailedTrainKeepsSlot ==
    [][(tpc' # tpc \/ tresp' # tresp)
          => \/ _model' = _model
             \/ (tpc = "exited0" /\ tresp'.status = 200 /\ _model' = None)]_vars

\* a training timed out while a loaded model sat in the slot
C5_Witness ==
    /\ tresp.status = 504
    /\ _model # None

\* C6: the slot and every reference taken from it are None or a fully loaded
\* model; the reference a prediction took from the slot is the one it keeps while
\* in flight and the one predict is given, whatever happens to the slot meanwhile.
C6_Refs ==
    /\ IsModel(_model)
    /\ \A p \in Workers : IsModel(model[p]) /\ IsModel(used[p])
C6_Step ==
    \A p \in Workers :
       /\ (pc[p] = "return" /\ pc'[p] = "predict") => model'[p] = _model
       /\ (pc[p] = "predict" /\ pc'[p] = "predict") => model'[p] = model[p]
       /\ (pc[p] = "predict" /\ pc'[p] = "done") => used'[p] = model[p]
C6_InFlightKeepsReference == []C6_Refs /\ [][C6_Step]_vars

\* a prediction completed with the model of artifact 1 after the slot had been
\* invalidated and reloaded from artifact 2
C6_Witness ==
    \E p \in Workers :
       /\ pc[p] = "done"
       /\ used[p] = Model(1)
       /\ _model = Model(2)

\* C2: the next /predict call to reach get_model after a successful /train has
\* called load_or_mock by the time get_model has returned.  (In its weakest
\* reading: a call handed the model of the newly saved artifact by another
\* worker's load is not counted against the claim.)
C2_NextPredictReloads ==
    \A p \in Workers :
       (isNext[p] /\ pc[p] = "predict") => (loaded[p] \/ model[p] = Model(artifact))

\* C3: once a failed load has been stored, a /predict request received later in
\* the same epoch (before the next invalidation) calls load_or_mock no more.
C3_NoRetryAfterFailedLoad ==
    \A p \in Workers : afterFail[p] => ~loaded[p]

====
